---------------------------- MODULE Spec2Model ----------------------------
(***************************************************************************)
(* Model of scripts/prepare-corpus/prepare_prose.py: text normalisation,   *)
(* section splitting, unit chunking, record building and tier assignment.  *)
(*                                                                         *)
(* Texts are sequences of tokens.  A token is one character class:         *)
(*   "w"   a letter (one-letter word when delimited by non-letters)        *)
(*   "sp"  a space          "tab" a horizontal tab                         *)
(*   "nl"  a line feed      "cr"  a carriage return                        *)
(*   "bom" the byte-order mark U+FEFF                                      *)
(*   "S"   a maximal match of _GUTENBERG_START_RE                          *)
(*   "E"   a maximal match of _GUTENBERG_END_RE                            *)
(***************************************************************************)
EXTENDS Integers, Sequences, FiniteSets, TLC

VARIABLES
    pc,                 \* position of the run
    raw,                \* normalize_text: the argument
    text,               \* normalize_text(raw)
    retext,             \* normalize_text(text)
    paragraphs,         \* the paragraphs handed to split_sections / chunk_section
    target_words,       \* --target-words
    max_words,          \* --max-words
    min_words,          \* --min-words
    items,              \* chunk_section: the returned list of units
    split_mode,         \* the work's split_mode
    min_section_words,  \* --min-section-words
    sections,           \* split_sections: the returned list of sections
    records,            \* the scored units, in the order handed to assign_tiers
    tiers,              \* assign_tiers: the returned tiers
    num_works,          \* build_records: len(works)
    work_index,         \* build_records: works handled so far
    min_unit_words,     \* --min-unit-words
    chunks,             \* build_records: the chunks of the work handled last
    cand,               \* fetch_gutenberg_text: the next candidate location
    last_err,           \* fetch_gutenberg_text: a candidate has raised
    failed              \* the work whose source raised; 0 when none has

normVars == <<raw, text, retext>>
chunkVars == <<paragraphs, target_words, max_words, min_words, items>>
sectionVars == <<split_mode, min_section_words, sections>>
tierVars == <<records, tiers>>
buildVars == <<num_works, work_index, min_unit_words, chunks, cand, last_err, failed>>
vars == <<pc, normVars, chunkVars, sectionVars, tierVars, buildVars>>

---------------------------------------------------------------------------
(* Bounds *)

MaxLen == 4             \* longest raw text, in tokens
MaxWords == 2           \* largest --max-words / --min-words tried
MaxSents == 3           \* most sentences in one section, all paragraphs together
MaxParas == 4           \* most paragraphs handed to split_sections
MaxUnits == 3           \* most scored units handed to assign_tiers
MaxWorks == 2           \* most works in the manifest
MaxRows == 5            \* most units in the lists that differ in fk_grade alone

---------------------------------------------------------------------------
(* Text normalisation *)

Tokens == {"w", "sp", "tab", "nl", "cr", "bom", "S", "E"}

\* str.strip() removes these (no "cr" survives the line-ending step, but
\* strip() would remove it as well)
Whitespace == {"sp", "tab", "nl", "cr"}

RECURSIVE ReplaceCrLf(_)
\* raw.replace("\r\n", "\n")
ReplaceCrLf(t) ==
    IF Len(t) = 0 THEN <<>>
    ELSE IF Len(t) >= 2 /\ t[1] = "cr" /\ t[2] = "nl"
         THEN <<"nl">> \o ReplaceCrLf(SubSeq(t, 3, Len(t)))
         ELSE <<t[1]>> \o ReplaceCrLf(Tail(t))

\* .replace("\r", "\n")
ReplaceCr(t) == [i \in 1..Len(t) |-> IF t[i] = "cr" THEN "nl" ELSE t[i]]

\* text.replace("\ufeff", "")
RemoveBom(t) == SelectSeq(t, LAMBDA c : c # "bom")

RECURSIVE LStrip(_)
LStrip(t) ==
    IF Len(t) > 0 /\ t[1] \in Whitespace THEN LStrip(Tail(t)) ELSE t

RECURSIVE RStrip(_)
RStrip(t) ==
    IF Len(t) > 0 /\ t[Len(t)] \in Whitespace
    THEN RStrip(SubSeq(t, 1, Len(t) - 1)) ELSE t

\* str.strip()
Strip(t) == RStrip(LStrip(t))

\* re.search: 1-based position of the first token c in t, 0 when none
FirstIndex(t, c) ==
    IF \E i \in 1..Len(t) : t[i] = c
    THEN CHOOSE i \in 1..Len(t) : t[i] = c /\ \A j \in 1..(i - 1) : t[j] # c
    ELSE 0

\* Python slices text[a:] and text[:b] with 0-based offsets a, b >= 0
SliceFrom(t, a) == SubSeq(t, a + 1, Len(t))
SliceTo(t, b) == SubSeq(t, 1, IF b < Len(t) THEN b ELSE Len(t))

\* strip_gutenberg_boilerplate: both searches run on the argument; the end
\* offset found there is then applied to the text already cut at the start.
strip_gutenberg_boilerplate(t) ==
    LET start_match == FirstIndex(t, "S")
        end_match   == FirstIndex(t, "E")
        t1 == IF start_match # 0 THEN SliceFrom(t, start_match) ELSE t
                                    \* start_match.end() = start_match
        t2 == IF end_match # 0 THEN SliceTo(t1, end_match - 1) ELSE t1
                                    \* end_match.start() = end_match - 1
    IN  Strip(t2)

RECURSIVE CollapseBlanks(_)
\* re.sub(r"[ \t]+", " ", text)
CollapseBlanks(t) ==
    IF Len(t) = 0 THEN <<>>
    ELSE IF t[1] \in {"sp", "tab"}
         THEN IF Len(t) >= 2 /\ t[2] \in {"sp", "tab"}
              THEN CollapseBlanks(Tail(t))
              ELSE <<"sp">> \o CollapseBlanks(Tail(t))
         ELSE <<t[1]>> \o CollapseBlanks(Tail(t))

RECURSIVE CollapseNewlines(_)
\* re.sub(r"\n{3,}", "\n\n", text)
CollapseNewlines(t) ==
    IF Len(t) = 0 THEN <<>>
    ELSE IF Len(t) >= 3 /\ t[1] = "nl" /\ t[2] = "nl" /\ t[3] = "nl"
         THEN CollapseNewlines(Tail(t))
         ELSE <<t[1]>> \o CollapseNewlines(Tail(t))

\* the steps of normalize_text after the boilerplate cut
Tidy(t) == Strip(CollapseNewlines(CollapseBlanks(t)))

\* the steps of normalize_text before the boilerplate cut
Canon(t) == RemoveBom(ReplaceCr(ReplaceCrLf(t)))

normalize_text(t) == Tidy(strip_gutenberg_boilerplate(Canon(t)))

RECURSIVE SeqsUpTo(_, _)
\* all sequences over S of length <= n
SeqsUpTo(S, n) ==
    IF n = 0 THEN {<<>>}
    ELSE LET shorter == SeqsUpTo(S, n - 1)
         IN  shorter \cup { Append(s, x) : s \in {q \in shorter : Len(q) = n - 1}, x \in S }

NormIdle == raw = <<>> /\ text = <<>> /\ retext = <<>>

ChunkIdle ==
    /\ paragraphs = <<>>
    /\ target_words = 1 /\ max_words = 1 /\ min_words = 1
    /\ items = <<>>

SectionIdle == split_mode = "none" /\ min_section_words = 1 /\ sections = <<>>

NoTiers == [easy |-> <<>>, medium |-> <<>>, hard |-> <<>>]

TierIdle == records = <<>> /\ tiers = NoTiers

BuildIdle ==
    /\ num_works = 0 /\ work_index = 0 /\ min_unit_words = 1
    /\ chunks = <<>> /\ cand = 0 /\ last_err = FALSE /\ failed = 0

InitNorm ==
    /\ pc = "raw"
    /\ raw \in SeqsUpTo(Tokens, MaxLen)
    /\ text = <<>>
    /\ retext = <<>>
    /\ ChunkIdle
    /\ SectionIdle
    /\ TierIdle
    /\ BuildIdle

\* norm_text = normalize_text(raw_text)
Normalize ==
    /\ pc = "raw"
    /\ text' = normalize_text(raw)
    /\ pc' = "normalized"
    /\ UNCHANGED <<raw, retext, chunkVars, sectionVars, tierVars, buildVars>>

\* normalize_text applied to its own result
Renormalize ==
    /\ pc = "normalized"
    /\ retext' = normalize_text(text)
    /\ pc' = "renormalized"
    /\ UNCHANGED <<raw, text, chunkVars, sectionVars, tierVars, buildVars>>

NextNorm == Normalize \/ Renormalize

SpecNorm == InitNorm /\ [][NextNorm]_vars

---------------------------------------------------------------------------
(* Claims on normalize_text *)

\* the text the claim C4 describes: what lies strictly between the first
\* start marker and the first end marker after it
Between(t) ==
    LET s == FirstIndex(t, "S")
        rest == SliceFrom(t, s)
        e == FirstIndex(rest, "E")
    IN  SubSeq(rest, 1, e - 1)

\* C4: when the raw text holds a start marker and a later end marker, the
\* normalised text is exactly the (tidied) text strictly between the two,
\* so it holds neither marker, nothing before the start marker and nothing
\* after the end marker; with only one marker the text is cut on that side
\* only.
C4_StrictlyBetween ==
    pc = "normalized" =>
        LET c == Canon(raw)
            s == FirstIndex(c, "S")
            e == FirstIndex(c, "E")
        IN  /\ (s # 0 /\ e > s) => text = Tidy(Strip(Between(c)))
            /\ (s # 0 /\ e = 0) => text = Tidy(Strip(SliceFrom(c, s)))
            /\ (s = 0 /\ e # 0) => text = Tidy(Strip(SliceTo(c, e - 1)))

\* C7: normalising an already normalised text changes nothing.
C7_Idempotent == pc = "renormalized" => retext = text

---------------------------------------------------------------------------
(* Paragraphs                                                              *)
(*                                                                         *)
(* A paragraph is a record                                                 *)
(*   sents    the word count (count_words) of each of its sentences, in    *)
(*            order: the pieces _SENT_SPLIT_RE cuts it into                *)
(*   stub     is_structural_heading_paragraph(paragraph)                   *)
(*   heading  looks_like_heading(paragraph)                                *)
(*   excluded is_excluded_section_name(paragraph)                          *)
(* A unit's text is the sequence of the atoms joined in it.  An atom is    *)
(* either a whole paragraph (s = 0) or one sentence of a paragraph, named  *)
(* by the paragraph's position p in the list given to chunk_section, with  *)
(* its word count w.                                                       *)
(***************************************************************************)

RECURSIVE SumSeq(_)
SumSeq(q) == IF Len(q) = 0 THEN 0 ELSE q[1] + SumSeq(Tail(q))

\* count_words(paragraph)
ParaWords(para) == SumSeq(para.sents)

\* count_words(text) of a unit's text
UnitWords(unit) == SumSeq([i \in 1..Len(unit) |-> unit[i].w])

WholeAtom(p, para) == [p |-> p, s |-> 0, w |-> ParaWords(para)]
SentAtom(p, para, k) == [p |-> p, s |-> k, w |-> para.sents[k]]

\* line 287: the sentence does not fit into the open piece
PieceFull(current_words, w, maxw) == current_words + w > maxw

RECURSIVE SplitLoop(_, _, _, _, _, _, _, _)
\* the loop of split_oversized_paragraph over sentences k..
SplitLoop(p, para, k, pieces, current, current_words, target, maxw) ==
    IF k > Len(para.sents)
    THEN IF Len(current) > 0 THEN Append(pieces, current) ELSE pieces
    ELSE LET w == para.sents[k]
             a == SentAtom(p, para, k)
             closeFirst == Len(current) > 0 /\ PieceFull(current_words, w, maxw)
             pieces1 == IF closeFirst THEN Append(pieces, current) ELSE pieces
             current1 == IF closeFirst THEN <<a>> ELSE Append(current, a)
             words1 == IF closeFirst THEN w ELSE current_words + w
         IN  IF words1 >= target
             THEN SplitLoop(p, para, k + 1, Append(pieces1, current1), <<>>, 0, target, maxw)
             ELSE SplitLoop(p, para, k + 1, pieces1, current1, words1, target, maxw)

\* split_oversized_paragraph(paragraph, target_words, max_words): the pieces,
\* each the sequence of the sentences joined in it
split_oversized_paragraph(p, para, target, maxw) ==
    IF Len(para.sents) = 0
    THEN << <<WholeAtom(p, para)>> >>
    ELSE SplitLoop(p, para, 1, <<>>, <<>>, 0, target, maxw)

EmitCurrentDropsSingle(its, current) ==
    IF Len(current) <= 1 THEN its ELSE Append(its, current)

\* emit_current: items after the call (current and current_words are reset
\* by the caller of this operator)
EmitCurrent(its, current) ==
    IF Len(current) = 0 THEN its ELSE Append(its, current)

ExceedsMaxEarly(current_words, pw, maxw) == current_words + pw >= maxw

\* line 342: the paragraph does not fit into the accumulator
ExceedsMax(current_words, pw, maxw) == current_words + pw > maxw

\* line 348: the accumulator has reached the target
ReachedTarget(current_words, target) == current_words >= target

RECURSIVE ChunkLoop(_, _, _, _, _, _, _)
\* the loop of chunk_section over paragraphs k.., and the final emit_current
ChunkLoop(paras, k, its, current, current_words, target, maxw) ==
    IF k > Len(paras)
    THEN EmitCurrent(its, current)
    ELSE LET para == paras[k]
             pw == ParaWords(para)
         IN  IF para.stub
             THEN ChunkLoop(paras, k + 1, EmitCurrent(its, current), <<>>, 0, target, maxw)
             ELSE IF pw > maxw
             THEN ChunkLoop(paras, k + 1,
                            EmitCurrent(its, current)
                                \o split_oversized_paragraph(k, para, target, maxw),
                            <<>>, 0, target, maxw)
             ELSE LET flushFirst == Len(current) > 0 /\ ExceedsMax(current_words, pw, maxw)
                      its1 == IF flushFirst THEN EmitCurrent(its, current) ELSE its
                      current1 == IF flushFirst THEN <<WholeAtom(k, para)>>
                                  ELSE Append(current, WholeAtom(k, para))
                      words1 == IF flushFirst THEN pw ELSE current_words + pw
                  IN  IF ReachedTarget(words1, target)
                      THEN ChunkLoop(paras, k + 1, EmitCurrent(its1, current1), <<>>, 0, target, maxw)
                      ELSE ChunkLoop(paras, k + 1, its1, current1, words1, target, maxw)

\* the raw units of chunk_section, before the merge pass (lines 313-351)
RawItems(paras, target, maxw) == ChunkLoop(paras, 1, <<>>, <<>>, 0, target, maxw)

MergesBackAnySize(w, prev_w, minw, maxw) == w < minw

\* line 361: the unit is merged into the unit retained before it
MergesBack(w, prev_w, minw, maxw) == w < minw /\ prev_w + w <= maxw

RECURSIVE MergeLoop(_, _, _, _, _)
\* the merge pass over its[k..]
MergeLoop(its, k, merged, minw, maxw) ==
    IF k > Len(its) THEN merged
    ELSE LET unit == its[k]
             prev == merged[Len(merged)]
         IN  IF MergesBack(UnitWords(unit), UnitWords(prev), minw, maxw)
             THEN MergeLoop(its, k + 1,
                            [merged EXCEPT ![Len(merged)] = prev \o unit], minw, maxw)
             ELSE MergeLoop(its, k + 1, Append(merged, unit), minw, maxw)

\* chunk_section(section_title, paragraphs, target_words, max_words, min_words):
\* the texts of the returned pairs (every pair carries section_title)
chunk_section(paras, target, maxw, minw) ==
    LET its == RawItems(paras, target, maxw)
    IN  IF Len(its) <= 1 THEN its
        ELSE MergeLoop(its, 2, <<its[1]>>, minw, maxw)

\* word counts a sentence may have: up to one more than the largest max_words
SentWords == 0..(MaxWords + 1)

\* paragraphs of j sentences that are no heading and no stub
ProseParas(j) ==
    { [sents |-> q, stub |-> FALSE, heading |-> FALSE, excluded |-> FALSE] :
        q \in [1..j -> SentWords] }

\* heading stubs: a bare number ("12", no word) or a short title ("IV", "Foo")
StubParas ==
    { [sents |-> <<w>>, stub |-> TRUE, heading |-> FALSE, excluded |-> FALSE] :
        w \in 0..1 }

RECURSIVE ParaLists(_, _)
\* the lists of paragraphs taken from Single (one sentence each) and from the
\* prose paragraphs of 2.. sentences, holding at most k sentences in all
ParaLists(Single, k) ==
    IF k = 0 THEN {<<>>}
    ELSE {<<>>}
         \cup { <<p>> \o rest : p \in Single, rest \in ParaLists(Single, k - 1) }
         \cup UNION { { <<p>> \o rest : p \in ProseParas(j),
                                       rest \in ParaLists(Single, k - j) } : j \in 2..k }

InitChunk ==
    /\ pc = "section"
    /\ NormIdle
    /\ paragraphs \in ParaLists(ProseParas(1) \cup StubParas, MaxSents)
    /\ max_words \in 1..MaxWords
    /\ target_words \in 1..max_words
    /\ min_words \in 1..MaxWords
    /\ items = <<>>
    /\ SectionIdle
    /\ TierIdle
    /\ BuildIdle

\* chunks = chunk_section(section_title, section_paragraphs, ...)
ChunkSection ==
    /\ pc = "section"
    /\ items' = chunk_section(paragraphs, target_words, max_words, min_words)
    /\ pc' = "chunked"
    /\ UNCHANGED <<normVars, sectionVars, tierVars, buildVars, paragraphs, target_words, max_words,
                   min_words>>

NextChunk == ChunkSection

SpecChunk == InitChunk /\ [][NextChunk]_vars

---------------------------------------------------------------------------
(* Claims on chunk_section *)

\* C1: every unit chunk_section returns has at most max_words words, and a
\* paragraph above max_words is cut into at least 2 pieces.
C1_UnitsWithinMax ==
    pc = "chunked" =>
        /\ \A i \in 1..Len(items) : UnitWords(items[i]) <= max_words
        /\ \A k \in 1..Len(paragraphs) :
              (~paragraphs[k].stub /\ ParaWords(paragraphs[k]) > max_words)
                  => Len(split_oversized_paragraph(k, paragraphs[k],
                                                    target_words, max_words)) >= 2

\* the paragraphs C9 is about: no stub, none above max_words, and the word
\* counts add up to target_words exactly
ExactTarget ==
    /\ Len(paragraphs) > 0
    /\ \A k \in 1..Len(paragraphs) :
          ~paragraphs[k].stub /\ ParaWords(paragraphs[k]) <= max_words
    /\ SumSeq([k \in 1..Len(paragraphs) |-> ParaWords(paragraphs[k])]) = target_words

\* C9: paragraphs (no stub, none above max_words) whose word counts add up
\* to exactly target_words come back as exactly one unit, which holds all
\* the paragraphs in order.
C9_ExactTargetOneUnit ==
    (pc = "chunked" /\ ExactTarget) =>
        /\ Len(items) = 1
        /\ items[1] = [k \in 1..Len(paragraphs) |-> WholeAtom(k, paragraphs[k])]

\* C9 witness: several paragraphs, the last one needed to reach the target,
\* have been chunked into one unit
C9_Witness ==
    /\ pc = "chunked" /\ ExactTarget
    /\ Len(paragraphs) >= 2
    /\ ParaWords(paragraphs[1]) > 0
    /\ ParaWords(paragraphs[Len(paragraphs)]) > 0
    /\ Len(items) = 1

\* the raw units of the section at hand, before the merge pass
Raw == RawItems(paragraphs, target_words, max_words)

\* the words of the first j atoms of a unit
WordsBefore(unit, j) == UnitWords(SubSeq(unit, 1, j))

\* the raw unit begins at atom j of returned unit i
BeginsAt(unit, i, j) ==
    /\ i \in 1..Len(items) /\ j \in 1..Len(items[i])
    /\ j + Len(unit) - 1 <= Len(items[i])
    /\ SubSeq(items[i], j, j + Len(unit) - 1) = unit

\* C12: every raw unit lies whole in one returned unit; the first raw unit
\* begins the first returned unit; a later raw unit continues the returned
\* unit it lies in (was merged backward) exactly when its word count is below
\* min_words and, together with the words retained before it in that unit,
\* does not exceed max_words, and otherwise begins a returned unit.  Hence a
\* returned unit after the first whose word count is below min_words exceeds
\* max_words together with the returned unit before it.
C12_MergePass ==
    pc = "chunked" =>
        /\ LET units == Raw
           IN  \A k \in 1..Len(units) :
              \E i \in 1..Len(items) : \E j \in 1..Len(items[i]) :
                 /\ BeginsAt(units[k], i, j)
                 /\ k = 1 => (i = 1 /\ j = 1)
                 /\ k > 1 =>
                       LET w == UnitWords(units[k])
                           prev_w == IF j > 1 THEN WordsBefore(items[i], j - 1)
                                     ELSE IF i > 1 THEN UnitWords(items[i - 1])
                                     ELSE -1
                       IN  /\ prev_w >= 0
                           /\ (j > 1) <=> (w < min_words /\ prev_w + w <= max_words)
        /\ \A i \in 2..Len(items) :
              UnitWords(items[i]) < min_words
                  => UnitWords(items[i - 1]) + UnitWords(items[i]) > max_words

\* C12 witness: of three raw units the second was merged into the first, and
\* the third, below min_words, was kept since the two together exceed
\* max_words
C12_Witness ==
    /\ pc = "chunked"
    /\ Len(Raw) = 3 /\ Len(items) = 2
    /\ BeginsAt(Raw[2], 1, Len(Raw[1]) + 1)
    /\ BeginsAt(Raw[3], 2, 1)
    /\ UnitWords(items[2]) > 0
    /\ UnitWords(items[2]) < min_words
    /\ UnitWords(items[1]) + UnitWords(items[2]) > max_words

Range(q) == { q[i] : i \in 1..Len(q) }

RECURSIVE Flatten(_)
\* the atoms of the units its, read in order
Flatten(its) == IF Len(its) = 0 THEN <<>> ELSE its[1] \o Flatten(Tail(its))

\* the sentences of paragraph k of the section at hand, each with its words
SentencesOf(k) ==
    [j \in 1..Len(paragraphs[k].sents) |-> [p |-> k, s |-> j, w |-> paragraphs[k].sents[j]]]

RECURSIVE Expand(_)
\* the sentences a sequence of atoms stands for: a whole paragraph stands for
\* all its sentences
Expand(atoms) ==
    IF Len(atoms) = 0 THEN <<>>
    ELSE (IF atoms[1].s = 0 THEN SentencesOf(atoms[1].p) ELSE <<atoms[1]>>)
         \o Expand(Tail(atoms))

RECURSIVE ProseFrom(_)
\* the sentences of the paragraphs k.. that are no heading stubs, in order
ProseFrom(k) ==
    IF k > Len(paragraphs) THEN <<>>
    ELSE (IF paragraphs[k].stub THEN <<>> ELSE SentencesOf(k)) \o ProseFrom(k + 1)

\* C13: the content of the returned units, read in order, is exactly the
\* content of the paragraphs that are no heading stubs, in their order:
\* nothing is lost, duplicated or moved; the word counts of the units add up
\* to the word counts of those paragraphs; and no unit holds a stub paragraph.
C13_ContentKept ==
    pc = "chunked" =>
        LET atoms == Flatten(items)
        IN  /\ Expand(atoms) = ProseFrom(1)
            /\ SumSeq([i \in 1..Len(items) |-> UnitWords(items[i])])
                  = SumSeq([j \in 1..Len(ProseFrom(1)) |-> ProseFrom(1)[j].w])
            /\ \A i \in 1..Len(atoms) :
                  /\ ~paragraphs[atoms[i].p].stub
                  /\ atoms[i].s = 0 => atoms[i].w = ParaWords(paragraphs[atoms[i].p])

\* C13 witness: a section with a stub of one word and a paragraph above
\* max_words, which was cut into its sentences, has been chunked into 2 or
\* more units
C13_Witness ==
    /\ pc = "chunked"
    /\ Len(items) >= 2
    /\ \E k \in 1..Len(paragraphs) :
          paragraphs[k].stub /\ ParaWords(paragraphs[k]) > 0
    /\ \E k \in 1..Len(paragraphs) :
          /\ ~paragraphs[k].stub /\ ParaWords(paragraphs[k]) > max_words
          /\ \E i, j \in 1..Len(items) :
                /\ i < j
                /\ \E a \in Range(items[i]), b \in Range(items[j]) :
                      a.p = k /\ b.p = k /\ a.s = 1 /\ b.s = 2

---------------------------------------------------------------------------
(* split_sections *)

\* count_words("\n\n".join(paras))
ListWords(paras) == SumSeq([k \in 1..Len(paras) |-> ParaWords(paras[k])])

\* the fallback section over all input paragraphs
FullText(paras) == [kind |-> "Full text", at |-> 0, body |-> paras]

\* line 250: the paragraphs before the first heading make a section
LeadKept(lead, minsec) == ListWords(lead) >= minsec

SectionKeptAnyName(heading, body, minsec) ==
    Len(body) > 0 /\ ~(ListWords(body) < minsec)

\* lines 258-263: the section of a heading is retained
SectionKept(heading, body, minsec) ==
    /\ Len(body) > 0
    /\ ~(ListWords(body) < minsec)
    /\ ~heading.excluded

\* lines 266-268: the result when `found` is what the loop collected
OrFullText(found, paras) == IF Len(found) = 0 THEN <<FullText(paras)>> ELSE found

RECURSIVE HeadingLoop(_, _, _, _, _)
\* the loop over heading_indices[idx..]; a section is named by its kind and,
\* for a heading's section, by the position `at` of the heading paragraph
HeadingLoop(paras, heading_indices, idx, found, minsec) ==
    IF idx > Len(heading_indices) THEN found
    ELSE LET heading_i == heading_indices[idx]
             body_end == IF idx + 1 <= Len(heading_indices)
                         THEN heading_indices[idx + 1] - 1 ELSE Len(paras)
             body == SubSeq(paras, heading_i + 1, body_end)
         IN  IF SectionKept(paras[heading_i], body, minsec)
             THEN HeadingLoop(paras, heading_indices, idx + 1,
                      Append(found, [kind |-> "heading", at |-> heading_i, body |-> body]),
                      minsec)
             ELSE HeadingLoop(paras, heading_indices, idx + 1, found, minsec)

RECURSIVE IndicesFrom(_, _)
\* [i for i, p in enumerate(paragraphs) if looks_like_heading(p)], from k on
IndicesFrom(paras, k) ==
    IF k > Len(paras) THEN <<>>
    ELSE IF paras[k].heading THEN <<k>> \o IndicesFrom(paras, k + 1)
         ELSE IndicesFrom(paras, k + 1)

\* split_sections(paragraphs, split_mode, min_section_words), split_mode
\* being one of the two supported modes
split_sections(paras, mode, minsec) ==
    IF mode = "none" THEN <<FullText(paras)>>
    ELSE LET heading_indices == IndicesFrom(paras, 1)
         IN  IF Len(heading_indices) = 0 THEN <<FullText(paras)>>
             ELSE LET lead == SubSeq(paras, 1, heading_indices[1] - 1)
                      intro == IF heading_indices[1] > 1 /\ LeadKept(lead, minsec)
                               THEN <<[kind |-> "Introduction", at |-> 0, body |-> lead]>>
                               ELSE <<>>
                  IN  OrFullText(HeadingLoop(paras, heading_indices, 1, intro, minsec), paras)

\* paragraphs that look like a heading, with an excluded name or not
HeadingParas ==
    { [sents |-> <<1>>, stub |-> FALSE, heading |-> TRUE, excluded |-> x] :
        x \in BOOLEAN }

\* one-sentence paragraphs of 0..MaxWords words
ShortParas ==
    { [sents |-> <<w>>, stub |-> FALSE, heading |-> FALSE, excluded |-> FALSE] :
        w \in 0..MaxWords }

InitSections ==
    /\ pc = "paragraphs"
    /\ NormIdle
    /\ paragraphs \in SeqsUpTo(HeadingParas \cup ShortParas, MaxParas)
    /\ target_words = 1 /\ max_words = 1 /\ min_words = 1 /\ items = <<>>
    /\ split_mode \in {"headings", "none"}
    /\ min_section_words \in 1..(MaxWords + 1)
    /\ sections = <<>>
    /\ TierIdle
    /\ BuildIdle

\* sections = split_sections(paragraphs, split_mode=..., min_section_words=...)
SplitSections ==
    /\ pc = "paragraphs"
    /\ sections' = split_sections(paragraphs, split_mode, min_section_words)
    /\ pc' = "split"
    /\ UNCHANGED <<normVars, chunkVars, tierVars, buildVars, split_mode, min_section_words>>

NextSections == SplitSections

SpecSections == InitSections /\ [][NextSections]_vars

---------------------------------------------------------------------------
(* Claims on split_sections *)

HeadingAt(k) == k \in 1..Len(paragraphs) /\ paragraphs[k].heading

\* the paragraphs after heading k, up to the next heading or the end
BodyOf(k) ==
    { j \in (k + 1)..Len(paragraphs) : \A h \in (k + 1)..j : ~paragraphs[h].heading }

\* the paragraphs before the first heading
LeadSet == { j \in 1..Len(paragraphs) : \A h \in 1..j : ~paragraphs[h].heading }

RECURSIVE WordsIn(_)
\* the words of the paragraphs at the positions in K
WordsIn(K) ==
    IF K = {} THEN 0
    ELSE LET k == CHOOSE x \in K : TRUE
         IN  ParaWords(paragraphs[k]) + WordsIn(K \ {k})

Survives(k) ==
    /\ BodyOf(k) # {}
    /\ WordsIn(BodyOf(k)) >= min_section_words
    /\ ~paragraphs[k].excluded

LeadSurvives == LeadSet # {} /\ WordsIn(LeadSet) >= min_section_words

HasSection(kind, at) ==
    \E i \in 1..Len(sections) : sections[i].kind = kind /\ sections[i].at = at

IsFullTextOnly ==
    /\ Len(sections) = 1
    /\ sections[1].kind = "Full text"
    /\ sections[1].body = paragraphs

\* C10: with mode "headings", a heading's section is returned exactly when
\* its body is not empty, has at least min_section_words words and the
\* heading's name is not excluded; the "Introduction" section is returned
\* only when the lead paragraphs have at least min_section_words words;
\* when nothing survives, or there is no heading, the result is the single
\* section "Full text" over all the paragraphs; the result is never empty.
C10_SectionsKept ==
    (pc = "split" /\ split_mode = "headings") =>
        LET anyHeading == \E k \in 1..Len(paragraphs) : paragraphs[k].heading
            anySurvivor == LeadSurvives \/ \E k \in 1..Len(paragraphs) :
                                              HeadingAt(k) /\ Survives(k)
        IN  /\ Len(sections) >= 1
            /\ (~anyHeading \/ ~anySurvivor) => IsFullTextOnly
            /\ (anyHeading /\ anySurvivor) =>
                  /\ \A k \in 1..Len(paragraphs) :
                        HeadingAt(k) => (HasSection("heading", k) <=> Survives(k))
                  /\ HasSection("Introduction", 0) <=> LeadSurvives
                  /\ ~HasSection("Full text", 0)
                  /\ \A i \in 1..Len(sections) :
                        /\ sections[i].kind = "heading" =>
                              sections[i].body =
                                  SubSeq(paragraphs, sections[i].at + 1,
                                         sections[i].at + Cardinality(BodyOf(sections[i].at)))
                        /\ sections[i].kind = "Introduction" =>
                              sections[i].body = SubSeq(paragraphs, 1, Cardinality(LeadSet))

\* C10 witness: a split in mode "headings" that dropped one heading's section
\* for its excluded name, although its body was large enough, and kept
\* another heading's section
C10_Witness ==
    /\ pc = "split" /\ split_mode = "headings"
    /\ \E k \in 1..Len(paragraphs) :
          /\ HeadingAt(k) /\ paragraphs[k].excluded
          /\ BodyOf(k) # {} /\ WordsIn(BodyOf(k)) >= min_section_words
          /\ ~HasSection("heading", k)
    /\ \E k \in 1..Len(paragraphs) : HasSection("heading", k)

\* C10 witness of the fallback: headings were found, no section survived
C10_FallbackWitness ==
    /\ pc = "split" /\ split_mode = "headings"
    /\ \E k \in 1..Len(paragraphs) : paragraphs[k].heading
    /\ IsFullTextOnly

---------------------------------------------------------------------------
(* assign_tiers                                                            *)
(*                                                                         *)
(* A scored unit is a record: id (its position in the list build_records   *)
(* built, which makes units distinct), author, and the three scores        *)
(* fk_grade, pct_poly and factual_burden as integers (the scores counted   *)
(* in their rounding steps of 0.1 and 0.0001).                             *)
(*                                                                         *)
(* Composite difficulties are compared as real numbers, exactly.  With n   *)
(* units, S the sum and Q = n * (sum of squares) - S^2 of one score, the   *)
(* z-score of value v is 0 when Q = 0 (statistics.stdev is 0) and          *)
(*     (v - S/n) / sqrt(Q / (n (n-1)))                                     *)
(* otherwise, so that, c = sqrt((n-1) n) / 10 being the same for all,      *)
(*   difficulty(u) - difficulty(v) =                                       *)
(*     c * (  6 (u.fk_grade - v.fk_grade) / sqrt(Q_fk)                     *)
(*          + 3 (u.pct_poly - v.pct_poly) / sqrt(Q_poly)                   *)
(*          - (u.factual_burden - v.factual_burden) / sqrt(Q_burden) )     *)
(* The sign of such a sum of square roots is decided in integers.          *)
(***************************************************************************)

Authors == {"A", "B"}
ScoreValues == 0..1

Sq(x) == x * x

\* n * sum(v^2) - sum(v)^2 over the values q: n (n-1) times the variance
\* statistics.stdev takes the root of
ScaledVar(q) == Len(q) * SumSeq([i \in 1..Len(q) |-> Sq(q[i])]) - Sq(SumSeq(q))

\* one term of the difference of two difficulties: sgn * sqrt(num / den);
\* weight * delta / sqrt(qv), or 0 when z_score returns zeros (qv = 0)
Term(weight, delta, qv) ==
    IF qv = 0 \/ weight * delta = 0 THEN [sgn |-> 0, num |-> 0, den |-> 1]
    ELSE [sgn |-> IF weight * delta > 0 THEN 1 ELSE -1,
          num |-> Sq(weight * delta), den |-> qv]

\* sign of sqrt(a1) + sqrt(a2) - sqrt(b), the three being fractions >= 0
CmpRoots(a1, a2, b) ==
    LET A1 == a1.num * a2.den * b.den
        A2 == a2.num * a1.den * b.den
        B  == b.num * a1.den * a2.den
        D  == B - A1 - A2
    IN  IF D < 0 THEN 1
        ELSE IF 4 * A1 * A2 > Sq(D) THEN 1
        ELSE IF 4 * A1 * A2 < Sq(D) THEN -1
        ELSE 0

Zero == [sgn |-> 0, num |-> 0, den |-> 1]

\* sign of the sum of three terms
SignOfSum(t1, t2, t3) ==
    LET T == <<t1, t2, t3>>
        pos == SelectSeq(T, LAMBDA t : t.sgn = 1)
        neg == SelectSeq(T, LAMBDA t : t.sgn = -1)
    IN  IF Len(neg) = 0 THEN (IF Len(pos) = 0 THEN 0 ELSE 1)
        ELSE IF Len(pos) = 0 THEN -1
        ELSE IF Len(neg) = 1
             THEN CmpRoots(pos[1], IF Len(pos) = 2 THEN pos[2] ELSE Zero, neg[1])
             ELSE -CmpRoots(neg[1], neg[2], pos[1])

\* sign of difficulty(u) - difficulty(v) among the units recs (lines 488-502)
DiffSign(u, v, recs) ==
    LET col(f) == [i \in 1..Len(recs) |-> recs[i][f]]
    IN  SignOfSum(Term(6, u.fk_grade - v.fk_grade, ScaledVar(col("fk_grade"))),
                  Term(3, u.pct_poly - v.pct_poly, ScaledVar(col("pct_poly"))),
                  Term(-1, u.factual_burden - v.factual_burden,
                       ScaledVar(col("factual_burden"))))

RECURSIVE InsertRow(_, _, _)
\* the place of row in a list sorted so far: after every row that is not
\* more difficult (list.sort is stable)
InsertRow(sorted, row, recs) ==
    IF Len(sorted) = 0 THEN <<row>>
    ELSE IF DiffSign(sorted[Len(sorted)], row, recs) <= 0
         THEN Append(sorted, row)
         ELSE Append(InsertRow(SubSeq(sorted, 1, Len(sorted) - 1), row, recs),
                     sorted[Len(sorted)])

RECURSIVE SortLoop(_, _, _, _)
SortLoop(rows, k, sorted, recs) ==
    IF k > Len(rows) THEN sorted
    ELSE SortLoop(rows, k + 1, InsertRow(sorted, rows[k], recs), recs)

SortRowsReversed(rows, recs) ==
    LET q == SortLoop(rows, 1, <<>>, recs)
    IN  [i \in 1..Len(q) |-> q[Len(q) + 1 - i]]

SortRowsNot(rows, recs) == rows

\* author_rows.sort(key=lambda r: float(r["_difficulty"]))
SortRows(rows, recs) == SortLoop(rows, 1, <<>>, recs)

Max(a, b) == IF a >= b THEN a ELSE b

\* cut1 = max(1, n // 3)
Cut1(n) == Max(1, n \div 3)

Cut2Low(n) == Cut1(n) + 1

\* cut2 = max(cut1 + 1, (2 * n) // 3); if cut2 >= n: cut2 = n - 1
Cut2(n) ==
    LET c == Max(Cut1(n) + 1, (2 * n) \div 3)
    IN  IF c >= n THEN n - 1 ELSE c

HardBandShort(rows, cut2) == SubSeq(rows, cut2 + 2, Len(rows))

\* author_rows[:cut1], author_rows[cut1:cut2], author_rows[cut2:]
EasyBand(rows, cut1) == SubSeq(rows, 1, cut1)
MediumBand(rows, cut1, cut2) == SubSeq(rows, cut1 + 1, cut2)
HardBand(rows, cut2) == SubSeq(rows, cut2 + 1, Len(rows))

\* the bands one author's rows are cut into (lines 513-530)
AuthorBands(author_rows, recs) ==
    LET rows == SortRows(author_rows, recs)
        n == Len(rows)
    IN  IF n = 1 THEN [easy |-> <<>>, medium |-> <<>>, hard |-> rows]
        ELSE IF n = 2 THEN [easy |-> <<>>, medium |-> <<rows[1]>>, hard |-> <<rows[2]>>]
        ELSE [easy |-> EasyBand(rows, Cut1(n)),
              medium |-> MediumBand(rows, Cut1(n), Cut2(n)),
              hard |-> HardBand(rows, Cut2(n))]

RECURSIVE AuthorOrder(_, _)
\* the keys of by_author, in insertion order: first appearance in recs[k..]
AuthorOrder(recs, k) ==
    IF k > Len(recs) THEN <<>>
    ELSE LET rest == AuthorOrder(recs, k + 1)
         IN  <<recs[k].author>> \o SelectSeq(rest, LAMBDA a : a # recs[k].author)

RECURSIVE TierLoop(_, _, _, _)
\* the loop over by_author.values()
TierLoop(recs, authors, k, acc) ==
    IF k > Len(authors) THEN acc
    ELSE LET b == AuthorBands(SelectSeq(recs, LAMBDA r : r.author = authors[k]), recs)
         IN  TierLoop(recs, authors, k + 1,
                      [easy |-> acc.easy \o b.easy,
                       medium |-> acc.medium \o b.medium,
                       hard |-> acc.hard \o b.hard])

\* assign_tiers(records)
assign_tiers(recs) ==
    IF Len(recs) = 0 THEN NoTiers
    ELSE IF Len(recs) < 3 THEN [easy |-> <<>>, medium |-> <<>>, hard |-> recs]
    ELSE TierLoop(recs, AuthorOrder(recs, 1), 1, NoTiers)

UnitKinds ==
    [author : Authors, fk_grade : ScoreValues, pct_poly : ScoreValues,
     factual_burden : ScoreValues]

\* a rank that orders the kinds of unit
KindRank(u) ==
    (IF u.author = "A" THEN 0 ELSE 8) + 4 * u.fk_grade + 2 * u.pct_poly + u.factual_burden

\* the lists of n units build_records may have built, one for every multiset
\* of kinds (Shuffle below brings every order of each before assign_tiers)
BuiltLists(n) ==
    { [i \in 1..n |-> [id |-> i, author |-> q[i].author, fk_grade |-> q[i].fk_grade,
                       pct_poly |-> q[i].pct_poly,
                       factual_burden |-> q[i].factual_burden]] :
        q \in { x \in [1..n -> UnitKinds] :
                  \A i \in 1..(n - 1) : KindRank(x[i]) <= KindRank(x[i + 1]) } }

Orders(n) == { f \in [1..n -> 1..n] : \A i, j \in 1..n : f[i] = f[j] => i = j }

InitTiers ==
    /\ pc = "built"
    /\ NormIdle /\ ChunkIdle /\ SectionIdle /\ BuildIdle
    /\ \E n \in 1..MaxUnits : records \in BuiltLists(n)
    /\ tiers = NoTiers

\* rng.shuffle(records), when a shuffle seed is given
Shuffle ==
    /\ pc = "built"
    /\ \E f \in Orders(Len(records)) :
          records' = [i \in 1..Len(records) |-> records[f[i]]]
    /\ pc' = "shuffled"
    /\ UNCHANGED <<normVars, chunkVars, sectionVars, buildVars, tiers>>

\* tiered = assign_tiers(records)
AssignTiers ==
    /\ pc \in {"built", "shuffled"}
    /\ tiers' = assign_tiers(records)
    /\ pc' = "tiered"
    /\ UNCHANGED <<normVars, chunkVars, sectionVars, buildVars, records>>

NextTiers == Shuffle \/ AssignTiers

SpecTiers == InitTiers /\ [][NextTiers]_vars

---------------------------------------------------------------------------
(* Claims on assign_tiers *)

AllTiered == tiers.easy \o tiers.medium \o tiers.hard

\* C2: for 3 or more units, the three tiers are pairwise disjoint and hold
\* every input unit exactly once.
C2_Partition ==
    (pc = "tiered" /\ Len(records) >= 3) =>
        /\ Range(tiers.easy) \cap Range(tiers.medium) = {}
        /\ Range(tiers.easy) \cap Range(tiers.hard) = {}
        /\ Range(tiers.medium) \cap Range(tiers.hard) = {}
        /\ Range(AllTiered) = Range(records)
        /\ Len(AllTiered) = Len(records)

\* C2 witness: three units of two authors have been tiered
C2_Witness ==
    /\ pc = "tiered" /\ Len(records) >= 3
    /\ \E i, j \in 1..Len(records) : records[i].author # records[j].author
    /\ Len(tiers.easy) + Len(tiers.medium) + Len(tiers.hard) = Len(records)

\* u is not more difficult than v
NotHarder(u, v) == DiffSign(u, v, records) <= 0

\* C5: within one author, no unit in easy is more difficult than a unit in
\* medium, and no unit in medium is more difficult than a unit in hard.
C5_Monotone ==
    (pc = "tiered" /\ Len(records) >= 3) =>
        /\ \A u \in Range(tiers.easy), v \in Range(tiers.medium) :
              u.author = v.author => NotHarder(u, v)
        /\ \A u \in Range(tiers.medium), v \in Range(tiers.hard) :
              u.author = v.author => NotHarder(u, v)

\* C5 witness: one author has units of different difficulty in all three
\* tiers, and they arrived in another order than that of their difficulty
C5_Witness ==
    /\ pc = "tiered" /\ Len(records) >= 3
    /\ \E u \in Range(tiers.easy), v \in Range(tiers.medium), x \in Range(tiers.hard) :
          /\ u.author = v.author /\ v.author = x.author
          /\ DiffSign(u, v, records) < 0 /\ DiffSign(v, x, records) < 0
          /\ \E i, j \in 1..Len(records) :
                i < j /\ records[i] = x /\ records[j] = u

\* the list as build_records built it, before any shuffle
Unshuffled == [i \in 1..Len(records) |-> CHOOSE r \in Range(records) : r.id = i]

TierSets(t) == [easy |-> Range(t.easy), medium |-> Range(t.medium), hard |-> Range(t.hard)]

\* C6 as claimed: whatever the order of the list, each tier holds the same
\* set of units as for the unshuffled list.
C6_SameTiersAnyOrder ==
    pc = "tiered" => TierSets(tiers) = TierSets(assign_tiers(Unshuffled))

\* no two units of one author have the same composite difficulty
NoTies ==
    \A i, j \in 1..Len(records) :
        (i # j /\ records[i].author = records[j].author)
            => DiffSign(records[i], records[j], records) # 0

\* C6 as amended: whatever the order of the list, the tiers together hold
\* the same units, and each tier holds the same set of units as for the
\* unshuffled list when no two units of one author tie in difficulty.
C6_SameTiersUnlessTies ==
    pc = "tiered" =>
        /\ Range(AllTiered) = Range(Unshuffled)
        /\ NoTies => TierSets(tiers) = TierSets(assign_tiers(Unshuffled))

\* C6 witness: a list of 3 or more units without ties has been shuffled into
\* another order and tiered
C6_Witness ==
    /\ pc = "tiered" /\ Len(records) >= 3
    /\ NoTies
    /\ records # Unshuffled
    /\ tiers.easy # <<>>

---------------------------------------------------------------------------
(* assign_tiers on longer lists                                            *)
(*                                                                         *)
(* The cuts depend on the number of units of an author only.  To bring     *)
(* authors of up to MaxRows units before assign_tiers, the units here      *)
(* differ in fk_grade alone (pct_poly and factual_burden are 0 for all, so *)
(* that z_score returns zeros for both), and the lists come in every       *)
(* order.                                                                  *)
(***************************************************************************)

GradeValues == 0..2

\* the lists of n units that differ in author and fk_grade
GradedLists(n) ==
    { [i \in 1..n |-> [id |-> i, author |-> q[i].author, fk_grade |-> q[i].fk_grade,
                       pct_poly |-> 0, factual_burden |-> 0]] :
        q \in [1..n -> [author : Authors, fk_grade : GradeValues]] }

InitBands ==
    /\ pc = "built"
    /\ NormIdle /\ ChunkIdle /\ SectionIdle /\ BuildIdle
    /\ \E n \in 1..MaxRows : records \in GradedLists(n)
    /\ tiers = NoTiers

NextBands == AssignTiers

SpecBands == InitBands /\ [][NextBands]_vars

---------------------------------------------------------------------------
(* Claim on the cuts of assign_tiers *)

\* the units of author a in the list q
OfAuthor(q, a) == SelectSeq(q, LAMBDA r : r.author = a)

Min(a, b) == IF a <= b THEN a ELSE b

\* the counts the claim gives for an author of n >= 3 units
ClaimedCut1(n) == Max(1, n \div 3)
ClaimedCut2(n) == Min(n - 1, Max(ClaimedCut1(n) + 1, (2 * n) \div 3))

\* no unit of the list lo is more difficult than a unit of the list hi
AllNotHarder(lo, hi) ==
    \A u \in Range(lo), v \in Range(hi) : NotHarder(u, v)

\* C11: in a corpus of 3 or more units, an author's 1 unit is in hard; of an
\* author's 2 units the one of lower difficulty is in medium and the other in
\* hard; of an author's n >= 3 units the cut1 = max(1, n div 3) of lowest
\* difficulty are in easy, the next cut2 - cut1 in medium and the other
\* n - cut2 in hard, with cut2 = max(cut1 + 1, 2n div 3) and at most n - 1,
\* and each of the three tiers holds at least one unit of that author.
C11_BandsByCount ==
    (pc = "tiered" /\ Len(records) >= 3) =>
        \A a \in Authors :
            LET n == Len(OfAuthor(records, a))
                e == OfAuthor(tiers.easy, a)
                m == OfAuthor(tiers.medium, a)
                h == OfAuthor(tiers.hard, a)
            IN  /\ Len(e) + Len(m) + Len(h) = n
                /\ n = 1 => Len(h) = 1
                /\ n = 2 => Len(m) = 1 /\ Len(h) = 1 /\ AllNotHarder(m, h)
                /\ n >= 3 =>
                      /\ Len(e) = ClaimedCut1(n)
                      /\ Len(m) = ClaimedCut2(n) - ClaimedCut1(n)
                      /\ Len(h) = n - ClaimedCut2(n)
                      /\ Len(e) >= 1 /\ Len(m) >= 1 /\ Len(h) >= 1
                      /\ AllNotHarder(e, m \o h)
                      /\ AllNotHarder(m, h)

\* C11 witness: an author of 5 units, which came in another order than that
\* of their difficulty, has 1 unit in easy, 2 in medium and 2 in hard
C11_Witness ==
    /\ pc = "tiered"
    /\ \E a \in Authors :
          /\ Len(OfAuthor(records, a)) = 5
          /\ Len(OfAuthor(tiers.easy, a)) = 1
          /\ Len(OfAuthor(tiers.medium, a)) = 2
          /\ Len(OfAuthor(tiers.hard, a)) = 2
          /\ OfAuthor(records, a)[1] \in Range(tiers.hard)
          /\ DiffSign(tiers.easy[1], OfAuthor(records, a)[1], records) < 0

\* C11 witness for the small authors: in a corpus of 3 units, one author has
\* 2 units of different difficulty and the other author has 1
C11_SmallWitness ==
    /\ pc = "tiered" /\ Len(records) = 3
    /\ \E a, b \in Authors :
          /\ Len(OfAuthor(records, a)) = 2 /\ Len(OfAuthor(records, b)) = 1
          /\ Len(tiers.medium) = 1 /\ Len(tiers.hard) = 2
          /\ \E v \in Range(tiers.hard) :
                /\ v.author = a /\ tiers.medium[1].author = a
                /\ DiffSign(tiers.medium[1], v, records) < 0
          /\ OfAuthor(records, a)[1] \in Range(tiers.hard)

---------------------------------------------------------------------------
(* build_records                                                           *)
(*                                                                         *)
(* A record keeps the fields work_id (the position of the work in the      *)
(* manifest), unit_index (the number in the title), section and words.     *)
(* The text of a work is taken after normalize_text and to_paragraphs: a   *)
(* list of paragraphs.                                                     *)
(***************************************************************************)

\* the candidate locations tried by fetch_gutenberg_text
NumCandidates == 4

SectionName(sec) == [kind |-> sec.kind, at |-> sec.at]

RECURSIVE SectionChunks(_, _, _, _, _)
\* the chunks of sections k.., each with the section it came from and
\* wc = count_words(chunk_text): the (sec_name, chunk_text) pairs the loops
\* of lines 595-605 run over
SectionChunks(secs, k, target, maxw, minw) ==
    IF k > Len(secs) THEN <<>>
    ELSE LET units == chunk_section(secs[k].body, target, maxw, minw)
         IN  [i \in 1..Len(units) |->
                [section |-> SectionName(secs[k]), words |-> UnitWords(units[i])]]
             \o SectionChunks(secs, k + 1, target, maxw, minw)

\* lines 588-602 for one work
WorkChunks(paras, mode, minsec, target, maxw, minw) ==
    SectionChunks(split_sections(paras, mode, minsec), 1, target, maxw, minw)

KeepsChunkAlways(wc, min_unit) == TRUE

\* lines 606-607: the chunk is not skipped
KeepsChunk(wc, min_unit) == ~(wc < min_unit)

RECURSIVE RecordLoop(_, _, _, _, _, _)
\* the loop of lines 604-633 over cs[k..]
RecordLoop(cs, k, unit_index, recs, work_id, min_unit) ==
    IF k > Len(cs) THEN recs
    ELSE LET wc == cs[k].words
         IN  IF KeepsChunk(wc, min_unit)
             THEN RecordLoop(cs, k + 1, unit_index + 1,
                             Append(recs, [work_id |-> work_id, unit_index |-> unit_index,
                                           section |-> cs[k].section, words |-> wc]),
                             work_id, min_unit)
             ELSE RecordLoop(cs, k + 1, unit_index, recs, work_id, min_unit)

\* the paragraph lists a work's text may give: short texts, of two sentences
\* at most, with headings and heading stubs among the paragraphs
WorkTexts == ParaLists(ProseParas(1) \cup StubParas \cup HeadingParas, 2)

InitBuild ==
    /\ pc = "loop"
    /\ NormIdle /\ SectionIdle
    /\ paragraphs = <<>> /\ items = <<>>
    /\ max_words = MaxWords
    /\ target_words \in {1, max_words}
    /\ min_words \in {1, max_words}
    /\ min_unit_words \in 1..MaxWords
    /\ records = <<>> /\ tiers = NoTiers
    /\ num_works \in 1..MaxWorks
    /\ work_index = 0
    /\ chunks = <<>> /\ cand = 0 /\ last_err = FALSE /\ failed = 0

\* the rest of one pass of the loop over works, once load_work_text has
\* returned raw_text, whose paragraphs are paras (lines 582-635)
HandleText(paras, mode) ==
    /\ IF Len(paras) = 0
       THEN chunks' = <<>> /\ UNCHANGED records    \* skipped: it has no chunks
       ELSE LET cs == WorkChunks(paras, mode, min_section_words, target_words,
                                 max_words, min_words)
            IN  /\ chunks' = cs
                /\ records' = RecordLoop(cs, 1, 1, records, work_index + 1, min_unit_words)
    /\ work_index' = work_index + 1
    /\ pc' = IF work_index + 1 = num_works THEN "built" ELSE "loop"
    /\ UNCHANGED <<normVars, chunkVars, sectionVars, tiers, num_works, min_unit_words,
                   cand, last_err, failed>>

\* the loop takes the next work
CanLoad == pc = "loop" /\ work_index < num_works

Loaded ==
    /\ pc' = "loaded"
    /\ UNCHANGED <<normVars, chunkVars, sectionVars, tierVars, num_works, work_index,
                   min_unit_words, chunks, cand, last_err, failed>>

\* load_work_text returns without a download: a file, a url, a cached
\* Gutenberg text
LoadWork ==
    /\ CanLoad
    /\ cand = 0
    /\ Loaded

\* the text has paragraphs: it is cut into sections and chunks, and the
\* chunks that are large enough become records
HandleWork ==
    /\ pc = "loaded"
    /\ \E paras \in WorkTexts \ {<<>>}, mode \in {"headings", "none"} :
          HandleText(paras, mode)

\* the text has no paragraph: "Skipped ...: no paragraphs after normalization"
SkipEmptyWork ==
    /\ pc = "loaded"
    /\ HandleText(<<>>, "headings")

\* an exception leaves build_records: no list is returned
Raise ==
    /\ pc' = "raised"
    /\ failed' = work_index + 1
    /\ UNCHANGED <<normVars, chunkVars, sectionVars, tierVars, num_works, work_index,
                   min_unit_words, chunks, cand, last_err>>

\* load_work_text raises for a file or url source
LoadFails ==
    /\ CanLoad
    /\ cand = 0
    /\ Raise

\* fetch_gutenberg_text finds no cache file and starts on the candidates
StartFetch ==
    /\ CanLoad
    /\ cand = 0
    /\ cand' = 1
    /\ last_err' = FALSE
    /\ UNCHANGED <<pc, normVars, chunkVars, sectionVars, tierVars, num_works, work_index,
                   min_unit_words, chunks, failed>>

Fetching == CanLoad /\ cand >= 1

NextCandidate(err) ==
    /\ Fetching /\ cand <= NumCandidates
    /\ cand' = cand + 1
    /\ last_err' = err
    /\ UNCHANGED <<pc, normVars, chunkVars, sectionVars, tierVars, num_works, work_index,
                   min_unit_words, chunks, failed>>

\* fetch_url_text raises for the candidate: last_err = err; continue
CandidateFails == NextCandidate(TRUE)

\* the candidate's text is shorter than 200 characters: continue
CandidateShort == NextCandidate(last_err)

\* the candidate's text is cached and returned
CandidateOk ==
    /\ Fetching /\ cand <= NumCandidates
    /\ pc' = "loaded"
    /\ cand' = 0
    /\ last_err' = FALSE
    /\ UNCHANGED <<normVars, chunkVars, sectionVars, tierVars, num_works, work_index,
                   min_unit_words, chunks, failed>>

FetchExhaustedSkipsWork ==
    /\ Fetching /\ cand > NumCandidates
    /\ pc' = IF work_index + 1 = num_works THEN "built" ELSE "loop"
    /\ work_index' = work_index + 1
    /\ failed' = work_index + 1
    /\ cand' = 0
    /\ UNCHANGED <<normVars, chunkVars, sectionVars, tierVars, num_works,
                   min_unit_words, chunks, last_err>>

\* every candidate was tried: raise last_err, or RuntimeError when none
\* raised; build_records does not catch it
FetchExhausted ==
    /\ Fetching /\ cand > NumCandidates
    /\ Raise

NextBuild ==
    \/ LoadWork
    \/ HandleWork
    \/ SkipEmptyWork
    \/ LoadFails
    \/ StartFetch
    \/ CandidateFails
    \/ CandidateShort
    \/ CandidateOk
    \/ FetchExhausted

SpecBuild == InitBuild /\ [][NextBuild]_vars

---------------------------------------------------------------------------
(* Claims on build_records *)

\* C3 as claimed: a source that fails aborts that work only; the run as a
\* whole is aborted only when the failing work is the only one.
C3_OnlyThatWorkAborted == pc = "raised" => num_works = 1

\* C3 as amended: a source that fails aborts the whole run, whatever the
\* number of works: the error leaves build_records, no later work is
\* handled and no list of records is returned.
C3_FailureAbortsRun ==
    failed # 0 => (pc = "raised" /\ work_index = failed - 1)

\* C3 witness: the Gutenberg download of the first of several works has
\* exhausted its candidates, the last of which raised
C3_Witness ==
    /\ pc = "raised" /\ failed = 1 /\ num_works > 1
    /\ cand > NumCandidates /\ last_err

\* the records of the work handled last
LastRecords == SelectSeq(records, LAMBDA r : r.work_id = work_index)

\* the chunks of that work that reach min_unit_words
LargeChunks == SelectSeq(chunks, LAMBDA c : c.words >= min_unit_words)

\* C8: every record has at least min_unit_words words; a smaller chunk gives
\* no record, is merged into no other record and takes no unit index: the
\* records of a work are its chunks of min_unit_words or more, unchanged
\* and numbered 1, 2, ... in order.
C8_SmallChunksDropped ==
    /\ \A i \in 1..Len(records) : records[i].words >= min_unit_words
    /\ work_index > 0 =>
          /\ Len(LastRecords) = Len(LargeChunks)
          /\ \A j \in 1..Len(LastRecords) :
                /\ LastRecords[j].unit_index = j
                /\ LastRecords[j].words = LargeChunks[j].words
                /\ LastRecords[j].section = LargeChunks[j].section

\* C8 witness: a work's first chunk was too small and dropped, and its
\* second chunk became the record numbered 1
C8_Witness ==
    /\ work_index > 0 /\ Len(chunks) >= 2
    /\ chunks[1].words < min_unit_words
    /\ chunks[2].words >= min_unit_words
    /\ Len(LastRecords) >= 1
    /\ LastRecords[1].unit_index = 1
    /\ LastRecords[1].words = chunks[2].words

=============================================================================
